---- MODULE Spec2Model ----
(***************************************************************************)
(* Model of src/commands/basic/init.js of mevn-cli: the `mevn init`        *)
(* workflow.  Three asynchronous functions are modelled as three tasks     *)
(* (initializeProject, fetchTemplate, makeInitialCommit), one action per   *)
(* continuation between two awaits.                                        *)
(***************************************************************************)
EXTENDS Integers, Sequences, FiniteSets, TLC

\* Largest number of lines of the cloned nuxt.config.js that is enumerated.
MaxLines == 3

(***************************************************************************)
(* Text helpers.  File contents and lines are sequences of characters.     *)
(***************************************************************************)

NL == "\n"

\* String.prototype.includes
Includes(line, pat) ==
  \E i \in 0..(Len(line) - Len(pat)) : SubSeq(line, i + 1, i + Len(pat)) = pat

\* Position of the first separator in s, 0 when there is none.
RECURSIVE FirstSep(_, _, _)
FirstSep(s, sep, i) ==
  IF i > Len(s) THEN 0
  ELSE IF s[i] = sep THEN i
  ELSE FirstSep(s, sep, i + 1)

\* String.prototype.split(sep) for a one-character separator: a TLA+
\* sequence of the pieces ("" splits into one empty piece).
RECURSIVE Split(_, _)
Split(s, sep) ==
  LET p == FirstSep(s, sep, 1) IN
    IF p = 0 THEN << s >>
    ELSE << SubSeq(s, 1, p - 1) >> \o Split(SubSeq(s, p + 1, Len(s)), sep)

(***************************************************************************)
(* JavaScript arrays: a length and a map from property keys to values.     *)
(* Keys 0..length-1 are the elements; any other key is a plain property    *)
(* that length, find, indexOf and join do not see.                         *)
(***************************************************************************)

ArrayOf(seq) == [length |-> Len(seq), el |-> [i \in 0..(Len(seq) - 1) |-> seq[i + 1]]]

\* arr[idx] = v with the semantics of a python-like negative index (mutant).
ArraySetWrapping(arr, idx, v) ==
  LET k == IF idx < 0 THEN arr.length + idx ELSE idx IN
    [length |-> IF k >= arr.length THEN k + 1 ELSE arr.length,
     el |-> [i \in (DOMAIN arr.el) \cup {k} |-> IF i = k THEN v ELSE arr.el[i]]]

\* arr[idx] = v
ArraySet(arr, idx, v) ==
  [length |-> IF idx >= arr.length THEN idx + 1 ELSE arr.length,
   el |-> [i \in (DOMAIN arr.el) \cup {idx} |-> IF i = idx THEN v ELSE arr.el[i]]]

\* Array.prototype.join(sep)
RECURSIVE JoinFrom(_, _, _)
JoinFrom(arr, sep, i) ==
  IF i >= arr.length THEN << >>
  ELSE IF i = arr.length - 1 THEN arr.el[i]
  ELSE arr.el[i] \o << sep >> \o JoinFrom(arr, sep, i + 1)

Join(arr, sep) == JoinFrom(arr, sep, 0)

\* configFile.find(line => line.includes('mode')): the first matching
\* element, or undefined.
Mode == << "m", "o", "d", "e" >>

RECURSIVE FindFrom(_, _)
FindFrom(arr, i) ==
  IF i >= arr.length THEN [found |-> FALSE, v |-> << >>]
  ELSE IF Includes(arr.el[i], Mode) THEN [found |-> TRUE, v |-> arr.el[i]]
  ELSE FindFrom(arr, i + 1)

FindModeLine(arr) == FindFrom(arr, 0)

\* Array.prototype.indexOf(x): the first index holding a value strictly
\* equal to x, or -1; no element of a split result is undefined.
RECURSIVE IndexFrom(_, _, _)
IndexFrom(arr, x, i) ==
  IF i >= arr.length THEN -1
  ELSE IF x.found /\ arr.el[i] = x.v THEN i
  ELSE IndexFrom(arr, x, i + 1)

IndexOf(arr, x) == IndexFrom(arr, x, 0)

\* The fixed line  mode: 'universal',
UniversalLine ==
  << " ", "m", "o", "d", "e", ":", " ", "'", "u", "n", "i", "v", "e", "r",
     "s", "a", "l", "'", "," >>

\* Mutant: replaces the last matching line instead of the first.
RECURSIVE LastModeIndex(_, _)
LastModeIndex(arr, i) ==
  IF i < 0 THEN -1
  ELSE IF Includes(arr.el[i], Mode) THEN i
  ELSE LastModeIndex(arr, i - 1)

PatchUniversalLast(content) ==
  LET configFile == ArrayOf(Split(content, NL)) IN
    Join(ArraySet(configFile, LastModeIndex(configFile, configFile.length - 1),
                  UniversalLine), NL)

\* Lines 158-171: read, split, find, indexOf, assign, join.
PatchUniversal(content) ==
  LET configFile == ArrayOf(Split(content, NL))
      index == IndexOf(configFile, FindModeLine(configFile))
  IN Join(ArraySet(configFile, index, UniversalLine), NL)

(***************************************************************************)
(* mevn.json.  A text is a sequence of tokens; white space is kept as      *)
(* tokens of its own so that the two ways the file is produced (joined     *)
(* template lines, JSON.stringify) give different texts.                   *)
(***************************************************************************)

Punct(c) == [t |-> "punct", v |-> c]
Str(s) == [t |-> "str", v |-> s]
Ws(c) == [t |-> "ws", v |-> c]
Lit(s) == [t |-> "lit", v |-> s]

\* Mutant: the configuration is built after the label has been remapped.
ConfigLinesCanonical(name, label) ==
  << << Punct("{") >>,
     << Str("name"), Punct(":"), Ws(" "), Str(name), Punct(",") >>,
     << Str("template"), Punct(":"), Ws(" "),
        Str(IF label = "Nuxt-js" THEN "nuxt" ELSE label) >>,
     << Punct("}") >> >>

\* Mutant: the name line carries the template label.
ConfigLinesWrongName(name, label) ==
  << << Punct("{") >>,
     << Str("name"), Punct(":"), Ws(" "), Str(label), Punct(",") >>,
     << Str("template"), Punct(":"), Ws(" "), Str(label) >>,
     << Punct("}") >> >>

\* Lines 215-220: the four lines of projectConfig, built from appName and
\* from the label the prompt returned.
ConfigLines(name, label) ==
  << << Punct("{") >>,
     << Str("name"), Punct(":"), Ws(" "), Str(name), Punct(",") >>,
     << Str("template"), Punct(":"), Ws(" "), Str(label) >>,
     << Punct("}") >> >>

\* projectConfig.join('\n').toString()
RECURSIVE JoinLines(_, _)
JoinLines(lines, sep) ==
  IF Len(lines) = 0 THEN << >>
  ELSE IF Len(lines) = 1 THEN lines[1]
  ELSE lines[1] \o << sep >> \o JoinLines(Tail(lines), sep)

ConfigText(lines) == JoinLines(lines, Ws(NL))

\* JSON.parse of a flat object: white space is skipped, the members are
\* read in order.  The result is the ordered list of members.
StripWs(text) == SelectSeq(text, LAMBDA tok : tok.t # "ws")

RECURSIVE Members(_)
Members(toks) ==
  IF Len(toks) < 3 THEN << >>
  ELSE << [k |-> toks[1].v, val |-> toks[3]] >>
         \o Members(SubSeq(toks, 5, Len(toks)))

JSONParse(text) ==
  LET toks == StripWs(text) IN Members(SubSeq(toks, 2, Len(toks) - 1))

\* obj[key] = val: replaces the member in place, or appends it.
ObjSet(obj, key, val) ==
  IF \E i \in 1..Len(obj) : obj[i].k = key
  THEN [i \in 1..Len(obj) |-> IF obj[i].k = key THEN [k |-> key, val |-> val] ELSE obj[i]]
  ELSE Append(obj, [k |-> key, val |-> val])

\* JSON.stringify of a flat object: no white space.
RECURSIVE StringifyMembers(_)
StringifyMembers(obj) ==
  IF Len(obj) = 0 THEN << >>
  ELSE << Str(obj[1].k), Punct(":"), obj[1].val >>
         \o (IF Len(obj) = 1 THEN << >> ELSE << Punct(",") >>)
         \o StringifyMembers(Tail(obj))

JSONStringify(obj) == << Punct("{") >> \o StringifyMembers(obj) \o << Punct("}") >>

\* Member lookup on a parsed object.
HasKey(obj, key) == \E i \in 1..Len(obj) : obj[i].k = key
Get(obj, key) == obj[CHOOSE i \in 1..Len(obj) : obj[i].k = key].val
Keys(obj) == [i \in 1..Len(obj) |-> obj[i].k]

\* Lines 138-145: read mevn.json back, add isPwa and rewrite it.
AddIsPwa(text) == JSONStringify(ObjSet(JSONParse(text), "isPwa", Lit("true")))

(***************************************************************************)
(* Inputs.                                                                 *)
(***************************************************************************)

\* Number of commits in the history that comes with a cloned boilerplate.
ClonedCommits == 2

\* Candidate project names (appName) and their characters.
Names == {"app", "my-app", "App", ".app", "a b"}

Chars(name) ==
  CASE name = "app" -> << "a", "p", "p" >>
    [] name = "my-app" -> << "m", "y", "-", "a", "p", "p" >>
    [] name = "App" -> << "A", "p", "p" >>
    [] name = ".app" -> << ".", "a", "p", "p" >>
    [] name = "a b" -> << "a", " ", "b" >>

Lower ==
  {"a", "b", "c", "d", "e", "f", "g", "h", "i", "j", "k", "l", "m", "n", "o",
   "p", "q", "r", "s", "t", "u", "v", "w", "x", "y", "z"}
Digits == {"0", "1", "2", "3", "4", "5", "6", "7", "8", "9"}

\* validate(appName).validForNewPackages of validate-npm-package-name, for
\* unscoped names: not empty, no leading dot or underscore, lower case and
\* URL-safe characters only.
ValidForNewPackages(name) ==
  LET c == Chars(name) IN
    /\ Len(c) > 0
    /\ c[1] \notin {".", "_"}
    /\ \A i \in 1..Len(c) : c[i] \in Lower \cup Digits \cup {"-", ".", "_"}

\* process.argv[4]: absent, an empty string, a flag, or a second positional
\* token.
Argv4Set ==
  { [defined |-> FALSE, s |-> << >>],
    [defined |-> TRUE, s |-> << >>],
    [defined |-> TRUE, s |-> << "-", "f" >>],
    [defined |-> TRUE, s |-> << "b", "a", "r" >>] }

\* Mutant: any fifth argument counts as stray and a real one does not.
HasMultipleProjectNameArgsInverted(arg) ==
  arg.defined /\ Len(arg.s) > 0 /\ arg.s[1] = "-"

\* Lines 187-188: process.argv[4] && !process.argv[4].startsWith('-')
HasMultipleProjectNameArgs(arg) ==
  arg.defined /\ Len(arg.s) > 0 /\ ~(arg.s[1] = "-")

\* The choices of the template prompt (line 211) and the keys of boilerplate
\* (lines 26-31).
Choices == {"basic", "pwa", "graphql", "Nuxt-js"}
BoilerplateKeys == {"basic", "pwa", "graphql", "nuxt"}

\* Lines of a cloned nuxt.config.js that are enumerated.
LineSet ==
  { << "m", "o", "d", "e", ":", "s" >>,
    << "x", "m", "o", "d", "e" >>,
    << "m", "o", "x" >>,
    << >>,
    UniversalLine }

\* The texts of up to max lines.
ContentsUpTo(max) ==
  UNION { { JoinLines(ls, NL) : ls \in [1..n -> LineSet] } : n \in 1..max }

Contents == ContentsUpTo(MaxLines)

NoFile == [exists |-> FALSE, data |-> << >>]
File(data) == [exists |-> TRUE, data |-> data]

(***************************************************************************)
(* State.                                                                  *)
(***************************************************************************)

VARIABLES
  argv4,          \* process.argv[4]
  appName,        \* the argument of initializeProject
  entries,        \* names that exist in the working directory at launch
  projectName,    \* module variable, line 23
  projectConfig,  \* module variable, line 24
  choice,         \* the label the template prompt returned
  template,       \* the argument of fetchTemplate
  requirePwa,     \* answer of the PWA prompt
  mode,           \* answer of the mode prompt
  initPc,         \* position of initializeProject
  fetchPc,        \* position of fetchTemplate
  commitPc,       \* position of makeInitialCommit
  initPromise,    \* promise returned by initializeProject
  fetchPromise,   \* promise returned by fetchTemplate
  commitPromise,  \* promise returned by makeInitialCommit
  exited,         \* the process has been terminated by process.exit
  spinner,        \* fetchSpinner
  projectDir,     \* the project directory has been created
  mevnJson,       \* <project>/mevn.json
  nuxtConfig,     \* <project>/nuxt.config.js
  cfgAtClone,     \* nuxt.config.js as the clone left it
  gitDir,         \* <project>/.git: none, cloned or fresh
  commits,        \* commits in <project>/.git
  cwd,            \* process.cwd(): orig or project
  running,        \* subprocesses and prompts that have not completed yet
  log             \* every effect of the run, in the order it happened

vars ==
  << argv4, appName, entries, projectName, projectConfig, choice, template,
     requirePwa, mode, initPc, fetchPc, commitPc, initPromise, fetchPromise,
     commitPromise, exited, spinner, projectDir, mevnJson, nuxtConfig,
     cfgAtClone, gitDir, commits, cwd, running, log >>

inputs == << argv4, appName >>
answers == << choice, template, requirePwa, mode >>
files == << projectDir, mevnJson, nuxtConfig, cfgAtClone >>
repo == << gitDir, commits >>

Init ==
  /\ argv4 \in Argv4Set
  /\ appName \in Names
  /\ entries \in { {}, {appName} }
  /\ projectName = "undefined"
  /\ projectConfig = << >>
  /\ choice = "none"
  /\ template = "none"
  /\ requirePwa = "unasked"
  /\ mode = "unasked"
  /\ initPc = "start"
  /\ fetchPc = "idle"
  /\ commitPc = "idle"
  /\ initPromise = "pending"
  /\ fetchPromise = "none"
  /\ commitPromise = "none"
  /\ exited = FALSE
  /\ spinner = "none"
  /\ projectDir = FALSE
  /\ mevnJson = NoFile
  /\ nuxtConfig = NoFile
  /\ cfgAtClone = NoFile
  /\ gitDir = "none"
  /\ commits = 0
  /\ cwd = "orig"
  /\ running = {"banner"}
  /\ log = << >>

(***************************************************************************)
(* initializeProject, lines 184-227.                                       *)
(***************************************************************************)

\* The helpers of utils/messages and utils/validate report and terminate
\* the process; they never return to their caller.
Terminates(fn) ==
  fn \in {"hasStrayArgs", "invalidProjectName", "directoryExistsInPath",
          "validateInstallation"}

\* Lines 187-202: the first check that fails, in the order of the code.
ValidationFailure ==
  IF HasMultipleProjectNameArgs(argv4) THEN "hasStrayArgs"
  ELSE IF ~ValidForNewPackages(appName) THEN "invalidProjectName"
  ELSE IF appName \in entries THEN "directoryExistsInPath"
  ELSE "none"

\* Lines 185-206: the banner has been shown; the three checks run, then
\* projectName is set and the template prompt is opened.
Validate ==
  /\ initPc = "start"
  /\ ~exited
  /\ LET f == ValidationFailure IN
       IF f # "none" /\ Terminates(f)
       THEN /\ exited' = TRUE
            /\ initPc' = "exited"
            /\ running' = {}
            /\ log' = log \o << "banner", f, "exit" >>
            /\ UNCHANGED projectName
       ELSE /\ projectName' = appName
            /\ initPc' = "prompt"
            /\ running' = {"prompt_template"}
            /\ log' = log \o << "banner", "prompt_template" >>
            /\ UNCHANGED exited
  /\ UNCHANGED << inputs, entries, projectConfig, answers, fetchPc, commitPc,
                  initPromise, fetchPromise, commitPromise, spinner, files,
                  repo, cwd >>

\* Mutant: fetchTemplate is awaited, so that initializeProject settles with it.
PromptTemplateAwaiting ==
  /\ initPc = "prompt"
  /\ ~exited
  /\ \E label \in Choices :
       /\ choice' = label
       /\ projectConfig' = ConfigLines(appName, label)
       /\ template' = IF label = "Nuxt-js" THEN "nuxt" ELSE label
  /\ fetchPc' = "probe"
  /\ fetchPromise' = "pending"
  /\ running' = {"probe"}
  /\ log' = log \o << "template_answer", "probe" >>
  /\ initPc' = "done"
  /\ initPromise' = "pending"
  /\ UNCHANGED << inputs, entries, projectName, requirePwa, mode, commitPc,
                  commitPromise, exited, spinner, files, repo, cwd >>

\* Lines 206-227 and 110: the prompt has answered; projectConfig is built
\* from the label, the label is remapped, fetchTemplate is called without
\* await and runs up to its first await (the probe is started); then
\* initializeProject returns.
PromptTemplate ==
  /\ initPc = "prompt"
  /\ ~exited
  /\ \E label \in Choices :
       /\ choice' = label
       /\ projectConfig' = ConfigLines(appName, label)
       /\ template' = IF label = "Nuxt-js" THEN "nuxt" ELSE label
  /\ fetchPc' = "probe"
  /\ fetchPromise' = "pending"
  /\ running' = {"probe"}
  /\ log' = log \o << "template_answer", "probe" >>
  /\ initPc' = "done"
  /\ initPromise' = "fulfilled"
  /\ UNCHANGED << inputs, entries, projectName, requirePwa, mode, commitPc,
                  commitPromise, exited, spinner, files, repo, cwd >>

(***************************************************************************)
(* fetchTemplate, lines 109-175.                                           *)
(***************************************************************************)

\* Mutant: the result of the probe is ignored.
ProbeDoneIgnoring ==
  /\ fetchPc = "probe"
  /\ ~exited
  /\ \E ok \in BOOLEAN :
       /\ spinner' = "spinning"
       /\ fetchPc' = "clone"
       /\ running' = {"clone"}
       /\ log' = log \o << IF ok THEN "probe_ok" ELSE "probe_absent",
                           "spinner_start", "clone" >>
       /\ UNCHANGED exited
  /\ UNCHANGED << inputs, entries, projectName, projectConfig, answers, initPc,
                  commitPc, initPromise, fetchPromise, commitPromise, files,
                  repo, cwd >>

\* Lines 110-115: validateInstallation('git help -g') has completed; when
\* the client is there the spinner is started and the clone is spawned.
ProbeDone ==
  /\ fetchPc = "probe"
  /\ ~exited
  /\ \E ok \in BOOLEAN :
       IF ~ok /\ Terminates("validateInstallation")
       THEN /\ exited' = TRUE
            /\ fetchPc' = "exited"
            /\ running' = {}
            /\ log' = log \o << "probe_absent", "exit" >>
            /\ UNCHANGED spinner
       ELSE /\ spinner' = "spinning"
            /\ fetchPc' = "clone"
            /\ running' = {"clone"}
            /\ log' = log \o << IF ok THEN "probe_ok" ELSE "probe_absent",
                                "spinner_start", "clone" >>
            /\ UNCHANGED exited
  /\ UNCHANGED << inputs, entries, projectName, projectConfig, answers, initPc,
                  commitPc, initPromise, fetchPromise, commitPromise, files,
                  repo, cwd >>

\* Mutant: the catch block rethrows without touching the spinner.
CloneFailedSilently ==
  /\ fetchPromise' = "rejected"
  /\ fetchPc' = "done"
  /\ running' = {}
  /\ log' = log \o << "clone_failed", "fetch_rejected" >>
  /\ UNCHANGED << spinner, files, repo >>

\* Lines 116-119: the clone failed; the spinner is marked failed and the
\* error is rethrown, which rejects the promise of fetchTemplate.
CloneFailed ==
  /\ spinner' = "failed"
  /\ fetchPromise' = "rejected"
  /\ fetchPc' = "done"
  /\ running' = {}
  /\ log' = log \o << "clone_failed", "spinner_fail", "fetch_rejected" >>
  /\ UNCHANGED << files, repo >>

\* Lines 121-135 and 174: the clone succeeded and left `cfg` as the
\* project's nuxt.config.js; the spinner is stopped and mevn.json is
\* written.  For nuxt the PWA prompt is opened, otherwise showCommandsList
\* is next.
CloneSucceeded(cfg) ==
  /\ projectDir' = TRUE
  /\ gitDir' = "cloned"
  /\ commits' = ClonedCommits
  /\ nuxtConfig' = cfg
  /\ cfgAtClone' = cfg
  /\ spinner' = "stopped"
  /\ mevnJson' = File(ConfigText(projectConfig))
  /\ IF template = "nuxt"
     THEN /\ fetchPc' = "pwa"
          /\ running' = {"prompt_pwa"}
          /\ log' = log \o << "clone_ok", "spinner_stop", "write_mevn", "prompt_pwa" >>
     ELSE /\ fetchPc' = "show"
          /\ running' = {}
          /\ log' = log \o << "clone_ok", "spinner_stop", "write_mevn" >>
  /\ UNCHANGED fetchPromise

\* What a clone can leave as nuxt.config.js: the nuxt boilerplate has the
\* file, the other boilerplates have none or a one-line file.
ClonedConfigs(t) ==
  IF t = "nuxt"
  THEN { File(c) : c \in Contents }
  ELSE { File(c) : c \in ContentsUpTo(1) } \cup {NoFile}

\* Lines 114-126: git clone boilerplate[template] projectName has completed.
CloneDone ==
  /\ fetchPc = "clone"
  /\ ~exited
  /\ \/ CloneFailed
     \/ \E cfg \in ClonedConfigs(template) : CloneSucceeded(cfg)
  /\ UNCHANGED << inputs, entries, projectName, projectConfig, answers, initPc,
                  commitPc, initPromise, commitPromise, exited, cwd >>

\* Lines 137-155: the PWA prompt has answered; on yes mevn.json is read
\* back, isPwa is added and the file is rewritten; the mode prompt is opened.
PwaDone ==
  /\ fetchPc = "pwa"
  /\ ~exited
  /\ \E requirePwaSupport \in BOOLEAN :
       IF requirePwaSupport
       THEN /\ requirePwa' = "yes"
            /\ mevnJson' = File(AddIsPwa(mevnJson.data))
            /\ log' = log \o << "pwa_answer", "read_mevn", "write_mevn", "prompt_mode" >>
       ELSE /\ requirePwa' = "no"
            /\ UNCHANGED mevnJson
            /\ log' = log \o << "pwa_answer", "prompt_mode" >>
  /\ fetchPc' = "mode"
  /\ running' = {"prompt_mode"}
  /\ UNCHANGED << inputs, entries, projectName, projectConfig, choice, template,
                  mode, initPc, commitPc, initPromise, fetchPromise,
                  commitPromise, exited, spinner, projectDir, nuxtConfig,
                  cfgAtClone, repo, cwd >>

\* Mutant: the patch is applied whatever the mode.
ShouldPatchAlways(m) == TRUE

\* Line 157: mode === 'Universal'
ShouldPatch(m) == m = "Universal"

\* Lines 157-174: the mode prompt has answered; for Universal the runtime
\* config is read, patched and rewritten; showCommandsList is next.
ModeDone ==
  /\ fetchPc = "mode"
  /\ ~exited
  /\ \E m \in {"Universal", "SPA"} :
       /\ mode' = m
       /\ IF ShouldPatch(m)
          THEN /\ nuxtConfig' = File(PatchUniversal(nuxtConfig.data))
               /\ log' = log \o << "mode_answer", "read_cfg", "write_cfg" >>
          ELSE /\ UNCHANGED nuxtConfig
               /\ log' = log \o << "mode_answer" >>
  /\ fetchPc' = "show"
  /\ running' = {}
  /\ UNCHANGED << inputs, entries, projectName, projectConfig, choice, template,
                  requirePwa, initPc, commitPc, initPromise, fetchPromise,
                  commitPromise, exited, spinner, projectDir, mevnJson,
                  cfgAtClone, repo, cwd >>

(***************************************************************************)
(* showCommandsList, lines 52-100, and makeInitialCommit, lines 39-44.     *)
(***************************************************************************)

\* Mutant: the cloned .git directory is not removed.
ShowCommandsListKeeping ==
  /\ fetchPc = "show"
  /\ ~exited
  /\ cwd' = "project"
  /\ commitPc' = "init"
  /\ commitPromise' = "pending"
  /\ running' = {"git_init"}
  /\ fetchPromise' = "fulfilled"
  /\ log' = log \o << "table", "chdir", "git_init" >>
  /\ fetchPc' = "done"
  /\ UNCHANGED << inputs, entries, projectName, projectConfig, answers, initPc,
                  initPromise, exited, spinner, files, repo >>

\* Lines 52-100, 39-41 and 174-175: the table is printed and the cloned
\* .git directory is removed synchronously; makeInitialCommit is called
\* without await and runs up to its first await (chdir, git init spawned);
\* then showCommandsList and fetchTemplate return.  A failing removal throws
\* out of both.
ShowCommandsList ==
  /\ fetchPc = "show"
  /\ ~exited
  /\ \E removed \in BOOLEAN :
       IF removed
       THEN /\ gitDir' = "none"
            /\ commits' = 0
            /\ cwd' = "project"
            /\ commitPc' = "init"
            /\ commitPromise' = "pending"
            /\ running' = {"git_init"}
            /\ fetchPromise' = "fulfilled"
            /\ log' = log \o << "table", "rm_git", "chdir", "git_init" >>
       ELSE /\ fetchPromise' = "rejected"
            /\ running' = {}
            /\ log' = log \o << "table", "rm_git_failed", "fetch_rejected" >>
            /\ UNCHANGED << repo, cwd, commitPc, commitPromise >>
  /\ fetchPc' = "done"
  /\ UNCHANGED << inputs, entries, projectName, projectConfig, answers, initPc,
                  initPromise, exited, spinner, files >>

\* A git step of makeInitialCommit failed: its promise rejects; nothing
\* awaits it.
CommitRejected(step) ==
  /\ commitPromise' = "rejected"
  /\ commitPc' = "done"
  /\ running' = {}
  /\ log' = log \o << step \o "_failed", "commit_rejected" >>
  /\ UNCHANGED repo

\* Lines 41-42: git init has completed; git add . is spawned.
GitInitDone ==
  /\ commitPc = "init"
  /\ ~exited
  /\ \/ CommitRejected("git_init")
     \/ /\ gitDir' = IF gitDir = "none" THEN "fresh" ELSE gitDir
        /\ commitPc' = "add"
        /\ running' = {"git_add"}
        /\ log' = log \o << "git_init_ok", "git_add" >>
        /\ UNCHANGED << commits, commitPromise >>
  /\ UNCHANGED << inputs, entries, projectName, projectConfig, answers, initPc,
                  fetchPc, initPromise, fetchPromise, exited, spinner, files,
                  cwd >>

\* Lines 42-43: git add has completed; git commit is spawned.
GitAddDone ==
  /\ commitPc = "add"
  /\ ~exited
  /\ \/ CommitRejected("git_add")
     \/ /\ commitPc' = "commit"
        /\ running' = {"git_commit"}
        /\ log' = log \o << "git_add_ok", "git_commit" >>
        /\ UNCHANGED << repo, commitPromise >>
  /\ UNCHANGED << inputs, entries, projectName, projectConfig, answers, initPc,
                  fetchPc, initPromise, fetchPromise, exited, spinner, files,
                  cwd >>

\* Lines 43-44: git commit has completed; makeInitialCommit returns.
GitCommitDone ==
  /\ commitPc = "commit"
  /\ ~exited
  /\ \/ CommitRejected("git_commit")
     \/ /\ commits' = commits + 1
        /\ commitPromise' = "fulfilled"
        /\ commitPc' = "done"
        /\ running' = {}
        /\ log' = log \o << "git_commit_ok" >>
        /\ UNCHANGED gitDir
  /\ UNCHANGED << inputs, entries, projectName, projectConfig, answers, initPc,
                  fetchPc, initPromise, fetchPromise, exited, spinner, files,
                  cwd >>

Next ==
  \/ Validate
  \/ PromptTemplate
  \/ ProbeDone
  \/ CloneDone
  \/ PwaDone
  \/ ModeDone
  \/ ShowCommandsList
  \/ GitInitDone
  \/ GitAddDone
  \/ GitCommitDone

Spec == Init /\ [][Next]_vars

\* Every variable stays within its type.
TypeOK ==
  /\ argv4 \in Argv4Set
  /\ appName \in Names
  /\ entries \subseteq Names
  /\ projectName \in Names \cup {"undefined"}
  /\ choice \in Choices \cup {"none"}
  /\ template \in BoilerplateKeys \cup {"none"}
  /\ requirePwa \in {"unasked", "yes", "no"}
  /\ mode \in {"unasked", "Universal", "SPA"}
  /\ initPc \in {"start", "prompt", "done", "exited"}
  /\ fetchPc \in {"idle", "probe", "clone", "pwa", "mode", "show", "done", "exited"}
  /\ commitPc \in {"idle", "init", "add", "commit", "done"}
  /\ initPromise \in {"pending", "fulfilled", "rejected"}
  /\ fetchPromise \in {"none", "pending", "fulfilled", "rejected"}
  /\ commitPromise \in {"none", "pending", "fulfilled", "rejected"}
  /\ exited \in BOOLEAN
  /\ projectDir \in BOOLEAN
  /\ spinner \in {"none", "spinning", "failed", "stopped"}
  /\ gitDir \in {"none", "cloned", "fresh"}
  /\ commits \in 0..(ClonedCommits + 1)
  /\ cwd \in {"orig", "project"}

(***************************************************************************)
(* Observations on the log and on the files.                               *)
(***************************************************************************)

Has(ev) == \E i \in 1..Len(log) : log[i] = ev
Count(ev) == Cardinality({ i \in 1..Len(log) : log[i] = ev })
First(ev) == CHOOSE i \in 1..Len(log) : log[i] = ev /\ \A j \in 1..(i - 1) : log[j] # ev
Before(a, b) == Has(a) /\ Has(b) /\ First(a) < First(b)

\* The parsed content of mevn.json.
MevnObject == JSONParse(mevnJson.data)

\* Lines of nuxt.config.js as cloned and as it is now.
OldLines == Split(cfgAtClone.data, NL)
NewLines == Split(nuxtConfig.data, NL)
ModeLines(lines) == { i \in 1..Len(lines) : Includes(lines[i], Mode) }

\* No file or directory of the project has been created or written.
NothingWritten ==
  /\ ~projectDir
  /\ mevnJson = NoFile
  /\ nuxtConfig = NoFile
  /\ gitDir = "none"
  /\ ~Has("write_mevn")
  /\ ~Has("write_cfg")

\* The steps of the finalizer that the log holds, in the order they happened.
FinalizerSteps == {"rm_git", "git_init", "git_add", "git_commit"}
FinalizerOrder == << "rm_git", "git_init", "git_add", "git_commit" >>
FinalizerLog == SelectSeq(log, LAMBDA ev : ev \in FinalizerSteps)

\* All three tasks have come to their end after a successful clone.
RunEndedAfterClone ==
  /\ Has("clone_ok")
  /\ fetchPc = "done"
  /\ commitPc \in {"idle", "done"}

(***************************************************************************)
(* C1                                                                      *)
(***************************************************************************)

\* The three ways validation fails, read off the inputs.
StrayArgument == argv4.defined /\ argv4.s # << >> /\ Head(argv4.s) # "-"
BadName == appName \in {"App", ".app", "a b"}
AlreadyThere == appName \in entries
ValidationFails == StrayArgument \/ BadName \/ AlreadyThere

\* C1: when a second non-flag positional argument is present, or the name
\* is no valid package name, or an entry of that name exists already, the
\* workflow aborts: the template prompt is never opened, no clone is
\* attempted and nothing is created or written.
C1_AbortsBeforePrompt ==
  ValidationFails =>
    /\ initPc \in {"start", "exited"}
    /\ fetchPc = "idle"
    /\ commitPc = "idle"
    /\ ~Has("prompt_template")
    /\ ~Has("probe")
    /\ ~Has("clone")
    /\ NothingWritten
    /\ (initPc = "exited" => exited)

C1_Witness ==
  /\ ValidationFails
  /\ initPc = "exited"
  /\ Has("directoryExistsInPath")

(***************************************************************************)
(* C2                                                                      *)
(***************************************************************************)

\* C2 as stated: the template held by mevn.json is always a canonical key,
\* the one the clone URL was looked up with.
C2_TemplateIsCanonicalKey ==
  mevnJson.exists =>
    /\ HasKey(MevnObject, "template")
    /\ Get(MevnObject, "template") \in { Str(k) : k \in BoilerplateKeys }
    /\ Get(MevnObject, "template") = Str(template)

\* C2 as amended: the template held by mevn.json is the label that was
\* chosen in the prompt; it is the key of the clone URL for basic, pwa and
\* graphql, and it is Nuxt-js, not nuxt, when Nuxt-js was chosen.
C2_TemplateIsChosenLabel ==
  mevnJson.exists =>
    /\ HasKey(MevnObject, "template")
    /\ Get(MevnObject, "template") = Str(choice)
    /\ (choice # "Nuxt-js" => Str(choice) = Str(template))
    /\ (choice = "Nuxt-js" =>
          template = "nuxt" /\ Get(MevnObject, "template") # Str(template))

C2_Witness ==
  /\ mevnJson.exists
  /\ choice = "Nuxt-js"
  /\ requirePwa = "yes"
  /\ fetchPc = "done"

(***************************************************************************)
(* C3                                                                      *)
(***************************************************************************)

\* C3: at the end of a run whose clone succeeded, mevn.json holds the
\* validated project name; it holds isPwa: true exactly when Nuxt-js was
\* chosen and the PWA prompt was answered yes; for basic, pwa and graphql
\* it was written once and holds the keys name and template only.
C3_FinalConfig ==
  (Has("clone_ok") /\ fetchPc = "done") =>
    /\ mevnJson.exists
    /\ ~BadName
    /\ HasKey(MevnObject, "name")
    /\ Get(MevnObject, "name") = Str(appName)
    /\ projectName = appName
    /\ HasKey(MevnObject, "isPwa") <=> (choice = "Nuxt-js" /\ requirePwa = "yes")
    /\ (HasKey(MevnObject, "isPwa") => Get(MevnObject, "isPwa") = Lit("true"))
    /\ (choice \in {"basic", "pwa", "graphql"} =>
          /\ Count("write_mevn") = 1
          /\ Keys(MevnObject) = << "name", "template" >>)

C3_Witness ==
  /\ Has("clone_ok")
  /\ fetchPc = "done"
  /\ choice = "Nuxt-js"
  /\ requirePwa = "yes"
  /\ Keys(MevnObject) = << "name", "template", "isPwa" >>
  /\ Count("write_mevn") = 2

(***************************************************************************)
(* C4                                                                      *)
(***************************************************************************)

\* The Universal patch has been applied in this run.
Patched == template = "nuxt" /\ mode = "Universal" /\ Has("write_cfg")

\* C4: after the Universal patch of a file that has a line containing
\* `mode`, the first such line is the universal-mode line, the number of
\* lines is the same and every other line is as it was, later lines that
\* contain `mode` included.
C4_FirstModeLineReplaced ==
  (Patched /\ ModeLines(OldLines) # {}) =>
    LET k == CHOOSE i \in ModeLines(OldLines) : \A j \in ModeLines(OldLines) : i <= j IN
      /\ Len(NewLines) = Len(OldLines)
      /\ NewLines[k] = UniversalLine
      /\ \A j \in 1..Len(OldLines) : j # k => NewLines[j] = OldLines[j]

C4_Witness ==
  /\ Patched
  /\ Len(OldLines) = 3
  /\ ModeLines(OldLines) = {2, 3}
  /\ OldLines[2] # UniversalLine
  /\ OldLines[3] # UniversalLine
  /\ NewLines[2] = UniversalLine
  /\ NewLines[3] = OldLines[3]

(***************************************************************************)
(* C5                                                                      *)
(***************************************************************************)

\* C5: nuxt.config.js is read and written only for template nuxt with mode
\* Universal; for Nuxt-js with SPA and for basic, pwa and graphql it is
\* never read or written and stays as the clone left it.
C5_ConfigUntouchedOtherwise ==
  /\ (Has("read_cfg") \/ Has("write_cfg")) => (template = "nuxt" /\ mode = "Universal")
  /\ ~(template = "nuxt" /\ mode = "Universal") =>
       /\ ~Has("read_cfg")
       /\ ~Has("write_cfg")
       /\ nuxtConfig = cfgAtClone

C5_Witness ==
  /\ choice = "Nuxt-js"
  /\ mode = "SPA"
  /\ fetchPc = "done"
  /\ commitPc = "done"
  /\ ModeLines(OldLines) # {}
  /\ nuxtConfig = cfgAtClone

(***************************************************************************)
(* C6                                                                      *)
(***************************************************************************)

\* C6: when the clone fails the spinner is marked failed before the error
\* leaves fetchTemplate, the clone is not tried again, mevn.json is not
\* written, no PWA or mode prompt is opened, no step of the finalizer runs
\* and fetchTemplate ends rejected.
C6_CloneFailureStops ==
  Has("clone_failed") =>
    /\ spinner = "failed"
    /\ Before("spinner_fail", "fetch_rejected")
    /\ Count("clone") = 1
    /\ mevnJson = NoFile
    /\ ~Has("write_mevn")
    /\ ~Has("prompt_pwa")
    /\ ~Has("prompt_mode")
    /\ ~Has("table")
    /\ FinalizerLog = << >>
    /\ commitPc = "idle"
    /\ commits = 0
    /\ fetchPc = "done"
    /\ fetchPromise = "rejected"
    /\ running = {}

C6_Witness ==
  /\ Has("clone_failed")
  /\ fetchPromise = "rejected"
  /\ spinner = "failed"

(***************************************************************************)
(* C7                                                                      *)
(***************************************************************************)

\* C7 as stated: every run whose clone succeeded ends with the four steps
\* of the finalizer done once each, in order, and with exactly one commit.
C7_AlwaysOneCommit ==
  RunEndedAfterClone =>
    /\ FinalizerLog = FinalizerOrder
    /\ commits = 1

\* C7 as amended: on every run whose clone succeeded the finalizer is
\* entered once; its steps are started in the order removal of .git, git
\* init, git add, git commit, each at most once and each only after the
\* one before it succeeded; the cloned history is gone when git init runs;
\* at most one commit is created, and exactly one when no step fails.
C7_FinalizerInOrder ==
  /\ \E n \in 0..4 : FinalizerLog = SubSeq(FinalizerOrder, 1, n)
  /\ Has("git_init") => (Before("rm_git", "git_init") /\ gitDir # "cloned")
  /\ Has("git_add") => Has("git_init_ok")
  /\ Has("git_commit") => Has("git_add_ok")
  /\ Count("git_commit_ok") <= 1
  /\ Has("git_init_ok") => commits = Count("git_commit_ok")
  /\ (Has("clone_ok") /\ fetchPc = "done") =>
       /\ Count("table") = 1
       /\ Count("rm_git") + Count("rm_git_failed") = 1
  /\ RunEndedAfterClone =>
       LET failed == \/ Has("rm_git_failed") \/ Has("git_init_failed")
                     \/ Has("git_add_failed") \/ Has("git_commit_failed")
       IN IF failed
          THEN commits \in {0, ClonedCommits} /\ Count("git_commit_ok") = 0
          ELSE FinalizerLog = FinalizerOrder /\ commits = 1 /\ gitDir = "fresh"

C7_Witness ==
  /\ RunEndedAfterClone
  /\ FinalizerLog = FinalizerOrder
  /\ commits = 1
  /\ gitDir = "fresh"
  /\ choice = "Nuxt-js"

(***************************************************************************)
(* C8                                                                      *)
(***************************************************************************)

\* C8: the clone is attempted only after the probe for the git client has
\* succeeded; when the probe finds no client the workflow aborts with the
\* spinner never started, no clone attempted and nothing written.
C8_ProbeGuardsClone ==
  /\ Has("clone") => (Before("probe_ok", "clone") /\ ~Has("probe_absent"))
  /\ Has("probe_absent") =>
       /\ exited
       /\ spinner = "none"
       /\ ~Has("spinner_start")
       /\ ~Has("clone")
       /\ NothingWritten
       /\ fetchPc = "exited"

C8_Witness ==
  /\ Has("probe_absent")
  /\ exited
  /\ initPc = "done"

(***************************************************************************)
(* C9                                                                      *)
(***************************************************************************)

\* C9: when no line of nuxt.config.js contains `mode`, the search yields
\* -1, the assignment at that index changes no line and no length, and the
\* file is rewritten as it was read; it holds no universal-mode line.
C9_NoModeLineNoChange ==
  (Patched /\ ModeLines(OldLines) = {}) =>
    /\ IndexOf(ArrayOf(OldLines), FindModeLine(ArrayOf(OldLines))) = -1
    /\ nuxtConfig.data = cfgAtClone.data
    /\ Len(NewLines) = Len(OldLines)
    /\ \A j \in 1..Len(OldLines) : NewLines[j] = OldLines[j]
    /\ \A j \in 1..Len(NewLines) : NewLines[j] # UniversalLine

C9_Witness ==
  /\ Patched
  /\ ModeLines(OldLines) = {}
  /\ Len(OldLines) >= 2
  /\ OldLines[1] # << >>
  /\ Count("write_cfg") = 1

(***************************************************************************)
(* C10                                                                     *)
(***************************************************************************)

\* The steps of the workflow in the order of the program text.
ProgramOrder ==
  << "banner", "prompt_template", "probe", "spinner_start", "clone",
     "spinner_stop", "prompt_pwa", "pwa_answer", "prompt_mode", "mode_answer",
     "read_cfg", "write_cfg", "table", "rm_git", "chdir", "git_init",
     "git_add", "git_commit" >>
ProgramSteps == { ProgramOrder[i] : i \in 1..Len(ProgramOrder) }
Rank == [ev \in ProgramSteps |-> CHOOSE i \in 1..Len(ProgramOrder) : ProgramOrder[i] = ev]
StepLog == SelectSeq(log, LAMBDA ev : ev \in ProgramSteps)

\* C10: the promise of initializeProject is fulfilled as soon as the
\* template prompt has answered, while the probe and the clone are still
\* to complete; no later failure rejects it; and the steps still run one
\* at a time, in program order.
C10_InitSettlesEarly ==
  /\ fetchPc # "idle" => initPromise = "fulfilled"
  /\ initPromise # "rejected"
  /\ initPromise = "fulfilled" <=> initPc = "done"
  /\ Cardinality(running) <= 1
  /\ LET steps == StepLog IN
       \A i \in 1..(Len(steps) - 1) : Rank[steps[i]] < Rank[steps[i + 1]]

C10_Witness ==
  /\ initPromise = "fulfilled"
  /\ commitPromise = "rejected"
  /\ fetchPromise = "fulfilled"
  /\ Has("git_commit_failed")

====
